---- MODULE Spec2Model ----
(***************************************************************************)
(* State-synchronisation model of the inventory front end.                 *)
(*                                                                         *)
(* Two variants of the App component live in the repository:               *)
(*   src/frontend/src/App.jsx  (FastAPI variant)   -> Spec                 *)
(*   src/unnamed/part_000      (proxy/Flask variant) -> LegacySpec         *)
(*                                                                         *)
(* The React component's state hooks are the variables; every event        *)
(* handler is split at its `await fetch(...)`: the synchronous part up to  *)
(* the await is the "call" action, the continuation after the response is  *)
(* the "resolve" action.  `products` as read by a continuation is the      *)
(* value captured by the closure of the render in which the handler was    *)
(* invoked; it is carried in the request record as `snap`.                 *)
(*                                                                         *)
(* Text is a sequence of one-character strings, so that trim, parseFloat   *)
(* and number-to-string are computed and not assumed.  Numbers are         *)
(* integers (the inputs drawn are integer literals).                       *)
(***************************************************************************)
EXTENDS Integers, Sequences, FiniteSets, TLC

VARIABLES
    products,   \* useState([])            local collection
    form,       \* useState({...})         the draft
    loading,    \* useState(true)
    error,      \* useState('')            '' is <<>>
    store,      \* the remote service's product table
    nextId,     \* the remote service's id counter
    inflight,   \* requests sent and not yet resolved in the component
    issued,     \* number of requests issued so far (request ids)
    last,       \* history: the step just taken
    lastLoad    \* history: outcome of the most recently resolved load

vars == <<products, form, loading, error, store, nextId, inflight, issued, last, lastLoad>>

(***************************************************************************)
(* Bounds of the model.                                                    *)
(***************************************************************************)
MaxRequests == 3
MaxInFlight == 2

(***************************************************************************)
(* Text helpers.                                                           *)
(***************************************************************************)
Digits == {"0", "1", "2", "3", "4", "5", "6", "7", "8", "9"}

DigitVal == ("0" :> 0) @@ ("1" :> 1) @@ ("2" :> 2) @@ ("3" :> 3) @@ ("4" :> 4)
            @@ ("5" :> 5) @@ ("6" :> 6) @@ ("7" :> 7) @@ ("8" :> 8) @@ ("9" :> 9)

DigitChar == <<"0", "1", "2", "3", "4", "5", "6", "7", "8", "9">>

RECURSIVE TrimStart(_)
TrimStart(s) == IF s # <<>> /\ Head(s) = " " THEN TrimStart(Tail(s)) ELSE s

RECURSIVE TrimEnd(_)
TrimEnd(s) ==
    IF s # <<>> /\ s[Len(s)] = " " THEN TrimEnd(SubSeq(s, 1, Len(s) - 1)) ELSE s

\* String.prototype.trim
trim(s) == TrimEnd(TrimStart(s))

\* a JS number: NaN, or an integer
NaN == [nan |-> TRUE, n |-> 0]
Num(n) == [nan |-> FALSE, n |-> n]

RECURSIVE ParseDigits(_, _)
ParseDigits(s, acc) ==
    IF s = <<>> \/ Head(s) \notin Digits
    THEN acc
    ELSE ParseDigits(Tail(s), acc * 10 + DigitVal[Head(s)])

\* parseFloat on text: leading blanks skipped, optional sign, the longest
\* run of digits; NaN when no digit follows
parseFloat(s) ==
    LET t == TrimStart(s)
        signed == t # <<>> /\ Head(t) \in {"-", "+"}
        body == IF signed THEN Tail(t) ELSE t
    IN  IF body = <<>> \/ Head(body) \notin Digits
        THEN NaN
        ELSE IF signed /\ Head(t) = "-"
             THEN Num(0 - ParseDigits(body, 0))
             ELSE Num(ParseDigits(body, 0))

RECURSIVE NatToString(_)
NatToString(n) ==
    IF n < 10 THEN <<DigitChar[n + 1]>>
    ELSE NatToString(n \div 10) \o <<DigitChar[(n % 10) + 1]>>

\* Number -> text, as `${n}` and as parseFloat(number) do first
NumberToString(n) == IF n < 0 THEN <<"-">> \o NatToString(0 - n) ELSE NatToString(n)

\* x || 0 on a number: NaN and 0 are falsy
OrZero(x) == IF x.nan \/ x.n = 0 THEN 0 ELSE x.n


(***************************************************************************)
(* Data: drafts, products, JSON bodies, requests.                          *)
(***************************************************************************)
\* useState initial value of the draft, and the value it is reset to
DefaultForm == [name |-> <<>>, category |-> "Electronics", quantity |-> 1, price |-> 0]

\* what the user puts into a field (e.target.value); the number inputs
\* hand over "" for text that is no number.  The category <select> is left
\* at its default: its value takes the same branch of handleChange as name
NameInputs == {<<" ", "w">>}
CategoryInputs == {}
QuantityInputs == {<<>>, <<"-", "1">>}
PriceInputs == {<<>>, <<"-", "1">>}

\* JSON values travelling in responses
NoBody == [type |-> "none", items |-> <<>>, detail |-> <<>>]
JArray(s) == [type |-> "array", items |-> s, detail |-> <<>>]
JProduct(p) == [type |-> "object", items |-> <<p>>, detail |-> <<>>]
JError(d) == [type |-> "object", items |-> <<>>, detail |-> d]
NotJson == [type |-> "notjson", items |-> <<>>, detail |-> <<>>]

NoDraft == [name |-> <<>>, category |-> "", quantity |-> 0, price |-> 0]

Request(rid, op, draft, id, snap) ==
    [rid |-> rid, op |-> op, stage |-> "sent", draft |-> draft, id |-> id,
     snap |-> snap, status |-> 0, body |-> NoBody]

NoReq == [rid |-> 0, op |-> "none", stage |-> "none", draft |-> NoDraft, id |-> 0,
          snap |-> <<>>, status |-> 0, body |-> NoBody]

Ids(s) == {s[i].id : i \in 1..Len(s)}

NoDup(s) == \A i, j \in 1..Len(s) : s[i].id = s[j].id => i = j

\* Array.prototype.filter(product => product.id !== id)
RECURSIVE FilterOut(_, _)
FilterOut(s, id) ==
    IF s = <<>> THEN <<>>
    ELSE IF Head(s).id # id THEN <<Head(s)>> \o FilterOut(Tail(s), id)
         ELSE FilterOut(Tail(s), id)

\* response.ok
Ok(status) == status >= 200 /\ status <= 299

\* history records: Event keeps what the step found (the request it resolved,
\* the collection, the error slot and the request count before it); Note
\* names the step only
Event(ev, req) ==
    [ev |-> ev, req |-> req, pre |-> products, preErr |-> error, preIssued |-> issued]

Note(ev) == [ev |-> ev, req |-> NoReq, pre |-> <<>>, preErr |-> <<>>, preIssued |-> 0]

(***************************************************************************)
(* The remote service (black box behind the HTTP contract) and the         *)
(* network.                                                                *)
(***************************************************************************)
InitialStores ==
    {<<[id |-> 1, name |-> <<"w">>, category |-> "Books", quantity |-> 1, price |-> 2]>>}

\* error answers the service may give to any request
ErrorAnswers ==
    {[status |-> 500, body |-> JError(<<"db down">>)],
     [status |-> 500, body |-> JError(<<>>)],
     [status |-> 502, body |-> NotJson]}

Answer(r, status, body) == [r EXCEPT !.stage = "answered", !.status = status, !.body = body]

\* GET /products -> 200 with the table
ServiceList(r) ==
    /\ r.op = "load" /\ r.stage = "sent"
    /\ inflight' = (inflight \ {r}) \cup {Answer(r, 200, JArray(store))}
    /\ last' = Note("service")
    /\ UNCHANGED <<products, form, loading, error, store, nextId, issued, lastLoad>>

\* POST /products -> 201 with the created product, under a fresh id
ServiceCreate(r) ==
    /\ r.op = "submit" /\ r.stage = "sent"
    /\ LET p == [id |-> nextId, name |-> r.draft.name, category |-> r.draft.category,
                 quantity |-> r.draft.quantity, price |-> r.draft.price]
       IN  /\ store' = Append(store, p)
           /\ inflight' = (inflight \ {r}) \cup {Answer(r, 201, JProduct(p))}
    /\ nextId' = nextId + 1
    /\ last' = Note("service")
    /\ UNCHANGED <<products, form, loading, error, issued, lastLoad>>

\* DELETE /products/{id} -> 200, or 404 when the id is not in the table
ServiceDelete(r) ==
    /\ r.op = "delete" /\ r.stage = "sent"
    /\ IF r.id \in Ids(store)
       THEN /\ store' = FilterOut(store, r.id)
            /\ inflight' = (inflight \ {r}) \cup {Answer(r, 200, JError(<<>>))}
       ELSE /\ store' = store
            /\ inflight' = (inflight \ {r})
                             \cup {Answer(r, 404, JError(<<"Product not found">>))}
    /\ last' = Note("service")
    /\ UNCHANGED <<products, form, loading, error, nextId, issued, lastLoad>>

\* what `await fetch` can hand to the continuation for request r: the
\* service's answer once it has one; before that, a rejection (the request
\* does not reach the service) or an error answer of the service
Rejected(r) == [r EXCEPT !.stage = "failed"]

Outcomes(r) ==
    IF r.stage = "answered" THEN {r}
    ELSE {Rejected(r)} \cup {Answer(r, a.status, a.body) : a \in ErrorAnswers}

CanSend == issued < MaxRequests /\ Cardinality(inflight) < MaxInFlight


(***************************************************************************)
(* src/frontend/src/App.jsx                                                *)
(***************************************************************************)
\* error.message of what the continuation throws
\*   fetch() rejected                      -> TypeError "Failed to fetch"
\*   !response.ok, response.json() throws  -> SyntaxError of the JSON parser
\*   !response.ok, body parsed             -> errorData.detail || `HTTP error! status: ${status}`
ErrorMessage(r) ==
    IF r.stage = "failed" THEN <<"Failed to fetch">>
    ELSE IF r.body.type = "notjson" THEN <<"Unexpected token in JSON">>
    ELSE IF r.body.detail # <<>> THEN r.body.detail
    ELSE <<"HTTP error! status: ">> \o NumberToString(r.status)

\* the try block throws before it reaches setProducts
Throws(r) == r.stage = "failed" \/ ~Ok(r.status)

\* setProducts(data)
LoadedAppended(data, cur) == cur \o data
Loaded(data, cur) == data

\* setProducts([newProduct, ...products]), products being the closure's
PrependedToCurrent(newProduct, snap, cur) == <<newProduct>> \o cur
Prepended(newProduct, snap, cur) == <<newProduct>> \o snap

\* setProducts(products.filter(product => product.id !== id)), products
\* being the closure's
Filtered(id, snap, cur) == FilterOut(snap, id)

\* fetchProducts up to `await fetch`
fetchProducts(ev) ==
    /\ error' = <<>>
    /\ inflight' = inflight \cup {Request(issued + 1, "load", NoDraft, 0, <<>>)}
    /\ issued' = issued + 1
    /\ last' = Note(ev)
    /\ UNCHANGED <<products, form, loading, store, nextId, lastLoad>>

\* useEffect(() => { fetchProducts(); }, [])
Mount ==
    /\ issued = 0
    /\ fetchProducts("mount")

\* <button onClick={fetchProducts} className="refresh-btn">
Refresh ==
    /\ ~loading
    /\ CanSend
    /\ fetchProducts("refresh")

\* fetchProducts after `await fetch`
fetchProductsResolved(q, r) ==
    /\ q.op = "load" /\ r \in Outcomes(q)
    /\ IF Throws(r)
       THEN /\ error' = <<"Failed to load products: ">> \o ErrorMessage(r)
            /\ products' = products
            /\ lastLoad' = "failed"
       ELSE /\ products' = Loaded(r.body.items, products)
            /\ error' = error
            /\ lastLoad' = "ok"
    /\ loading' = FALSE
    /\ inflight' = inflight \ {q}
    /\ last' = Event("loadResolved", r)
    /\ UNCHANGED <<form, store, nextId, issued>>

\* e.target.type === 'number' ? parseFloat(e.target.value) || 0 : e.target.value
Coerce(type, raw) == IF type = "number" THEN OrZero(parseFloat(raw)) ELSE raw

FieldType == [name |-> "text", category |-> "select-one",
              quantity |-> "number", price |-> "number"]

FieldInputs == [name |-> NameInputs, category |-> CategoryInputs,
                quantity |-> QuantityInputs, price |-> PriceInputs]

handleChange(field, raw) ==
    /\ ~loading
    /\ form' = [form EXCEPT ![field] = Coerce(FieldType[field], raw)]
    /\ last' = Note("change")
    /\ UNCHANGED <<products, loading, error, store, nextId, inflight, issued, lastLoad>>

\* the browser's constraint validation, which precedes onSubmit:
\* the inputs are `required`, the number inputs have min="0"
FormValidNoMin(f) == f.name # <<>>
FormValid(f) == f.name # <<>> /\ f.quantity >= 0 /\ f.price >= 0

\* handleSubmit up to `await fetch`
handleSubmit ==
    /\ ~loading
    /\ FormValid(form)
    /\ CanSend
    /\ error' = <<>>
    /\ LET productData == [name |-> trim(form.name),
                           category |-> form.category,
                           quantity |-> form.quantity,
                           price |-> parseFloat(NumberToString(form.price)).n]
       IN  inflight' = inflight \cup {Request(issued + 1, "submit", productData, 0, products)}
    /\ issued' = issued + 1
    /\ last' = Note("submit")
    /\ UNCHANGED <<products, form, loading, store, nextId, lastLoad>>

\* handleSubmit after `await fetch`
handleSubmitResolved(q, r) ==
    /\ q.op = "submit" /\ r \in Outcomes(q)
    /\ IF Throws(r)
       THEN /\ error' = <<"Failed to add product: ">> \o ErrorMessage(r)
            /\ UNCHANGED <<products, form>>
       ELSE /\ form' = DefaultForm
            /\ products' = Prepended(r.body.items[1], r.snap, products)
            /\ error' = error
    /\ inflight' = inflight \ {q}
    /\ last' = Event("submitResolved", r)
    /\ UNCHANGED <<loading, store, nextId, issued, lastLoad>>

\* if (window.confirm('Delete this product?'))
ConfirmedOrNot(confirmed) == TRUE
Confirmed(confirmed) == confirmed

\* handleDelete up to `await fetch`; the buttons are those of the rendered list
handleDelete(id, confirmed) ==
    /\ ~loading
    /\ id \in Ids(products)
    /\ IF Confirmed(confirmed)
       THEN /\ CanSend
            /\ inflight' = inflight \cup {Request(issued + 1, "delete", NoDraft, id, products)}
            /\ issued' = issued + 1
       ELSE UNCHANGED <<inflight, issued>>
    /\ last' = Event(IF confirmed THEN "delete" ELSE "deleteDeclined", NoReq)
    /\ UNCHANGED <<products, form, loading, error, store, nextId, lastLoad>>

\* handleDelete after `await fetch`
handleDeleteResolved(q, r) ==
    /\ q.op = "delete" /\ r \in Outcomes(q)
    /\ IF Throws(r)
       THEN /\ error' = <<"Failed to delete product: ">> \o ErrorMessage(r)
            /\ products' = products
       ELSE /\ products' = Filtered(r.id, r.snap, products)
            /\ error' = error
    /\ inflight' = inflight \ {q}
    /\ last' = Event("deleteResolved", r)
    /\ UNCHANGED <<form, loading, store, nextId, issued, lastLoad>>

\* <button onClick={() => setError('')} className="close-error">
dismissError ==
    /\ ~loading
    /\ error # <<>>
    /\ error' = <<>>
    /\ last' = Note("dismiss")
    /\ UNCHANGED <<products, form, loading, store, nextId, inflight, issued, lastLoad>>

Init ==
    /\ products = <<>>
    /\ form = DefaultForm
    /\ loading = TRUE
    /\ error = <<>>
    /\ store \in InitialStores
    /\ nextId = Len(store) + 1
    /\ inflight = {}
    /\ issued = 0
    /\ last = Note("init")
    /\ lastLoad = "none"

Next ==
    \/ Mount
    \/ Refresh
    \/ \E q \in inflight : \E r \in Outcomes(q) : fetchProductsResolved(q, r)
    \/ \E field \in DOMAIN FieldInputs : \E raw \in FieldInputs[field] : handleChange(field, raw)
    \/ handleSubmit
    \/ \E q \in inflight : \E r \in Outcomes(q) : handleSubmitResolved(q, r)
    \/ \E id \in Ids(products) : \E confirmed \in BOOLEAN : handleDelete(id, confirmed)
    \/ \E q \in inflight : \E r \in Outcomes(q) : handleDeleteResolved(q, r)
    \/ dismissError
    \/ \E r \in inflight : ServiceList(r)
    \/ \E r \in inflight : ServiceCreate(r)
    \/ \E r \in inflight : ServiceDelete(r)

Spec == Init /\ [][Next]_vars


(***************************************************************************)
(* src/unnamed/part_000: the variant of App without response.ok checks on  *)
(* load and delete, without an error slot and without a refresh button.    *)
(* Its state holds whatever JSON the service sent, so `products` is a JSON *)
(* value here (JArray(..) or an error object) and the draft's number       *)
(* fields are numbers or text.                                             *)
(***************************************************************************)
JNumber(n) == [t |-> "number", n |-> n, s |-> <<>>]
JString(s) == [t |-> "string", n |-> 0, s |-> s]

\* what an <input type="number" value={v}> shows
Shown(v) == IF v.t = "number" THEN NumberToString(v.n) ELSE v.s

legacy_DefaultForm ==
    [name |-> <<>>, category |-> "Electronics", quantity |-> JNumber(1), price |-> JNumber(0)]

legacy_InitialStores ==
    {<<[id |-> 1, name |-> <<"w">>, category |-> "Books",
        quantity |-> JNumber(1), price |-> JNumber(2)]>>}

\* `if (loading) return ...` comes first; below it the render calls
\* products.map, which throws when products is no array: React then
\* unmounts the component and drops later state updates
legacy_Mounted == loading \/ products.type = "array"

legacy_Rendered == ~loading /\ products.type = "array"

\* fetchProducts up to `await fetch`, as request number rid
legacy_fetchProducts(rid) == Request(rid, "load", NoDraft, 0, <<>>)

\* useEffect(() => { fetchProducts(); }, [])
legacy_Mount ==
    /\ issued = 0
    /\ inflight' = inflight \cup {legacy_fetchProducts(issued + 1)}
    /\ issued' = issued + 1
    /\ last' = Note("mount")
    /\ UNCHANGED <<products, form, loading, error, store, nextId, lastLoad>>

\* setProducts(data): data is response.json() of any response
legacy_Loaded(r, cur) == r.body

\* fetchProducts after `await fetch`
legacy_fetchProductsResolved(q, r) ==
    /\ q.op = "load" /\ r \in Outcomes(q)
    /\ IF legacy_Mounted
       THEN /\ products' = IF r.stage = "failed" \/ r.body.type = "notjson"
                           THEN products
                           ELSE legacy_Loaded(r, products)
            /\ loading' = FALSE
       ELSE UNCHANGED <<products, loading>>
    /\ lastLoad' = IF r.stage = "answered" /\ Ok(r.status) THEN "ok" ELSE "failed"
    /\ inflight' = inflight \ {q}
    /\ last' = Event("loadResolved", r)
    /\ UNCHANGED <<form, error, store, nextId, issued>>

\* [e.target.name]: e.target.value
legacy_handleChange(field, raw) ==
    /\ legacy_Rendered
    /\ form' = [form EXCEPT ![field] = IF FieldType[field] = "number"
                                       THEN JString(raw) ELSE raw]
    /\ last' = Note("change")
    /\ UNCHANGED <<products, loading, error, store, nextId, inflight, issued, lastLoad>>

\* constraint validation: `required`, min="0" on what the inputs show
legacy_FormValid(f) ==
    /\ f.name # <<>>
    /\ \A k \in {"quantity", "price"} :
          /\ Shown(f[k]) # <<>>
          /\ ~parseFloat(Shown(f[k])).nan
          /\ parseFloat(Shown(f[k])).n >= 0

\* a handler that refetches after its response takes two request numbers
legacy_CanSend == issued + 2 <= MaxRequests /\ Cardinality(inflight) < MaxInFlight

\* handleSubmit up to `await fetch`: body: JSON.stringify(form)
legacy_handleSubmit ==
    /\ legacy_Rendered
    /\ legacy_FormValid(form)
    /\ legacy_CanSend
    /\ inflight' = inflight \cup {Request(issued + 1, "submit", form, 0, <<>>)}
    /\ issued' = issued + 2
    /\ last' = Note("submit")
    /\ UNCHANGED <<products, form, loading, error, store, nextId, lastLoad>>

\* handleSubmit after `await fetch`
legacy_handleSubmitResolved(q, r) ==
    /\ q.op = "submit" /\ r \in Outcomes(q)
    /\ IF r.stage = "answered" /\ Ok(r.status)
       THEN /\ form' = IF legacy_Mounted THEN legacy_DefaultForm ELSE form
            /\ inflight' = (inflight \ {q}) \cup {legacy_fetchProducts(q.rid + 1)}
       ELSE /\ form' = form
            /\ inflight' = inflight \ {q}
    /\ last' = Event("submitResolved", r)
    /\ UNCHANGED <<products, loading, error, store, nextId, issued, lastLoad>>

\* handleDelete up to `await fetch`
legacy_handleDelete(id, confirmed) ==
    /\ legacy_Rendered
    /\ id \in Ids(products.items)
    /\ IF confirmed
       THEN /\ legacy_CanSend
            /\ inflight' = inflight \cup {Request(issued + 1, "delete", NoDraft, id, <<>>)}
            /\ issued' = issued + 2
       ELSE UNCHANGED <<inflight, issued>>
    /\ last' = Event(IF confirmed THEN "delete" ELSE "deleteDeclined", NoReq)
    /\ UNCHANGED <<products, form, loading, error, store, nextId, lastLoad>>

\* handleDelete after `await fetch`: fetchProducts() follows any response
legacy_handleDeleteResolved(q, r) ==
    /\ q.op = "delete" /\ r \in Outcomes(q)
    /\ inflight' = IF r.stage = "failed"
                   THEN inflight \ {q}
                   ELSE (inflight \ {q}) \cup {legacy_fetchProducts(q.rid + 1)}
    /\ last' = Event("deleteResolved", r)
    /\ UNCHANGED <<products, form, loading, error, store, nextId, issued, lastLoad>>

LegacyInit ==
    /\ products = JArray(<<>>)
    /\ form = legacy_DefaultForm
    /\ loading = TRUE
    /\ error = <<>>
    /\ store \in legacy_InitialStores
    /\ nextId = Len(store) + 1
    /\ inflight = {}
    /\ issued = 0
    /\ last = Note("init")
    /\ lastLoad = "none"

LegacyNext ==
    \/ legacy_Mount
    \/ \E q \in inflight : \E r \in Outcomes(q) : legacy_fetchProductsResolved(q, r)
    \/ \E field \in DOMAIN FieldInputs : \E raw \in FieldInputs[field] :
          legacy_handleChange(field, raw)
    \/ legacy_handleSubmit
    \/ \E q \in inflight : \E r \in Outcomes(q) : legacy_handleSubmitResolved(q, r)
    \/ \E id \in Ids(products.items) : \E confirmed \in BOOLEAN :
          legacy_handleDelete(id, confirmed)
    \/ \E q \in inflight : \E r \in Outcomes(q) : legacy_handleDeleteResolved(q, r)
    \/ \E r \in inflight : ServiceList(r)
    \/ \E r \in inflight : ServiceCreate(r)
    \/ \E r \in inflight : ServiceDelete(r)

LegacySpec == LegacyInit /\ [][LegacyNext]_vars


(***************************************************************************)
(* Properties.  `last` names the step that led to the state: last.req is   *)
(* the outcome a continuation was handed, last.pre the collection it       *)
(* found, last.preErr the error slot and last.preIssued the request count. *)
(***************************************************************************)
Resolved(ev) == last.ev = ev
Succeeded == last.req.stage = "answered" /\ Ok(last.req.status)
Failed == last.req.stage = "failed" \/ ~Ok(last.req.status)
ResolveEvents == {"loadResolved", "submitResolved", "deleteResolved"}

Prefix == [load |-> <<"Failed to load products: ">>,
           submit |-> <<"Failed to add product: ">>,
           delete |-> <<"Failed to delete product: ">>]

\* C1: a submit that the service answered with success leaves the
\* collection equal to the collection it found when it resolved plus exactly
\* the returned product (at the front or at the back), also when other
\* operations changed the collection while it was in flight.
C1_SubmitAddsOneEntry ==
    (Resolved("submitResolved") /\ Succeeded)
        => \/ products = <<last.req.body.items[1]>> \o last.pre
           \/ products = last.pre \o <<last.req.body.items[1]>>

\* C2: a confirmed remove(id) that the service answered with success leaves
\* the collection equal to the collection it found when it resolved without
\* the entry of that id, also when other operations changed the collection
\* while it was in flight.
C2_RemoveDropsOneEntry ==
    (Resolved("deleteResolved") /\ Succeeded)
        => products = FilterOut(last.pre, last.req.id)

\* C3: right after a load that the service answered with success resolves,
\* the collection is exactly the sequence the service returned, in order,
\* whatever it held before.
C3_LoadReplacesCollection ==
    (Resolved("loadResolved") /\ Succeeded) => products = last.req.body.items

\* C3 witness: a successful load resolved over a non-empty collection that
\* differs from the returned sequence.
C3_Witness ==
    /\ Resolved("loadResolved") /\ Succeeded
    /\ last.pre # <<>>
    /\ last.pre # last.req.body.items

\* C4: a load, submit or remove that fails (fetch rejected, or a non-2xx
\* status with any body) leaves the collection as the operation found it.
C4_FailureKeepsCollection ==
    (last.ev \in ResolveEvents /\ Failed) => products = last.pre

\* C5: every non-2xx answer to a load, submit or remove puts a message in
\* the error slot: the body's `detail` when it has one, and otherwise a
\* message built from the status code, whatever else the body is.
C5_ErrorFromDetailOrStatus ==
    (last.ev \in ResolveEvents /\ last.req.stage = "answered" /\ ~Ok(last.req.status))
        => error = Prefix[last.req.op]
                     \o (IF last.req.body.detail # <<>>
                         THEN last.req.body.detail
                         ELSE <<"HTTP error! status: ">> \o NumberToString(last.req.status))

\* C6: the loading flag is true while any load request (the one on mount or
\* one from the refresh button) is in flight, and false once loads have
\* resolved.
C6_LoadingWhileLoadInFlight ==
    /\ (\E r \in inflight : r.op = "load") => loading
    /\ (issued > 0 /\ ~(\E r \in inflight : r.op = "load")) => ~loading

\* C7: when no request is in flight and the most recent load succeeded, the
\* collection holds exactly the ids of the remote store.  (This client is
\* the only writer of the store in the model.)
C7_ViewMatchesStore ==
    (inflight = {} /\ lastLoad = "ok") => Ids(products) = Ids(store)

\* C8: every create request carries a non-negative quantity and price, and
\* so does the draft at the moment the request is sent, after any sequence
\* of edits; an edit of a number field stores the number parsed from the
\* input, and zero when the input parses to no number.
C8_PayloadNonNegative ==
    /\ [](/\ \A r \in inflight :
                r.op = "submit" => r.draft.quantity >= 0 /\ r.draft.price >= 0
          /\ last.ev = "submit" => form.quantity >= 0 /\ form.price >= 0)
    /\ [][\A field \in {"quantity", "price"} : \A raw \in FieldInputs[field] :
            handleChange(field, raw)
                => form'[field] = IF parseFloat(raw).nan THEN 0 ELSE parseFloat(raw).n]_vars

\* C8 witness: a create request was just sent with quantity zero, which the
\* draft holds only after an edit whose input parsed to no number.
C8_Witness ==
    /\ last.ev = "submit"
    /\ \E r \in inflight : r.op = "submit" /\ r.stage = "sent" /\ r.draft.quantity = 0

\* C9: a declined delete sends no request and leaves collection and error
\* slot as they were; a confirmed delete sends one request and leaves the
\* collection as it was; a delete that then fails leaves it too: the
\* entry goes only when the service has answered with success.
C9_DeleteNeedsConfirmation ==
    /\ Resolved("deleteDeclined")
          => issued = last.preIssued /\ products = last.pre /\ error = last.preErr
    /\ Resolved("delete")
          => issued = last.preIssued + 1 /\ products = last.pre /\ error = last.preErr
    /\ (Resolved("deleteResolved") /\ Failed) => products = last.pre
    /\ \A r \in inflight : (r.op = "delete" /\ r.stage = "sent") => r.id \in Ids(r.snap)

\* C9 witness: the user declined a delete while an error was shown and
\* another request was in flight.
C9_Witness ==
    /\ Resolved("deleteDeclined")
    /\ error # <<>>
    /\ products # <<>>
    /\ inflight # {}

\* C10: the collection never holds two entries with the same id (the
\* service hands out fresh ids and lists each id once).
C10_UniqueIds == NoDup(products)

\* C10 witness: a successful submit resolved whose product a load had
\* already put into the collection.
C10_Witness ==
    /\ Resolved("submitResolved") /\ Succeeded
    /\ last.req.body.items[1].id \in Ids(last.pre)

====
